---- MODULE Spec2Model ----
(***************************************************************************)
(* Model of samber/do-template-worker: the consumer loop (ConsumerWorker), *)
(* the producer loop (ProducerWorker), the broker client (RabbitMQService) *)
(* and the record store (userRepository over the users table).             *)
(***************************************************************************)
EXTENDS Integers, Sequences, FiniteSets, TLC

\* ------------------------------------------------------------------ bounds
MaxStarts == 2       \* Start() calls per worker (each spawns one loop goroutine)
MaxMsgs == 2         \* messages in the queue
MaxDeliveries == 2   \* deliveries the broker pushes to consumers
MaxTicks == 3        \* ticker fires over all producer loops
MaxShutdowns == 2    \* Shutdown() calls per object
MaxCreates == 3      \* CreateUser calls of a caller that uses the repository directly
MaxCrashes == 1      \* times the process is killed and started again

Tasks == 1..MaxStarts

VARIABLES
    cmd,          \* the subcommand this process runs: "consumer" or "producer"
    \* ConsumerWorker
    cCancelled,   \* w.ctx is done (cancel() was called)
    cPc,          \* per loop goroutine: position in Start's closure
    cCur,         \* per loop goroutine: delivery tag held in msg (0: none)
    \* RabbitMQService / broker
    chanOpen,     \* r.channel is open
    consumers,    \* loop goroutines whose channel.Consume succeeded
    queue,        \* messages ready in the durable queue
    deliveries,   \* every delivery pushed by the broker, by delivery tag
    \* users table
    users,        \* rows, in insertion order
    idSeq,        \* last value drawn from users_id_seq (BIGSERIAL)
    \* ProducerWorker
    pCancelled,   \* w.ctx is done
    pPc,          \* per loop goroutine: position in Start's closure
    tickReady,    \* per loop goroutine: a tick waits in ticker.C
    now,          \* the second the clock read by time.Now() shows
    published,    \* every PublishMessage call, in order
    \* the process
    crashes,      \* times the process was killed and started again
    \* lifecycle calls
    teardown,     \* how the caller shuts an object down: "once" or "repeated"
    cShutdownRets,\* what each ConsumerWorker.Shutdown call returned, in order
    pShutdownRets,\* what each ProducerWorker.Shutdown call returned, in order
    rOpened,      \* r.channel and r.conn were set (they are not nil)
    connOpen,     \* r.conn is open
    rShutdowns,   \* every RabbitMQService.Shutdown call: what it closed, what it returned
    brokerUp,     \* the broker can be reached over the network
    \* the repository used directly
    repoRet,      \* the last call of a UserRepository method and what it returned
    \* an envelope going through json.Marshal and json.Unmarshal
    codec

cvars == <<cCancelled, cPc, cCur>>
bvars == <<chanOpen, consumers, queue, deliveries>>
svars == <<users, idSeq>>
pvars == <<pCancelled, pPc, tickReady, now, published>>
lvars == <<crashes, teardown, cShutdownRets, pShutdownRets, rOpened, connOpen, rShutdowns, brokerUp>>
kvars == <<repoRet, codec>>
vars == <<cmd, cvars, bvars, svars, pvars, lvars, kvars>>

\* ------------------------------------------------------------ JSON values
\* A body is the text of a JSON value, or text that is no JSON at all.
JInvalid == [k |-> "invalid"]
JNull == [k |-> "null"]
\* an integer literal: its value is hi * 2^30 + lo, with 0 <= lo < 2^30
JNumber(hi, lo) == [k |-> "num", hi |-> hi, lo |-> lo]
JNum == JNumber(0, 7)
JStr(s) == [k |-> "str", s |-> s]
JObj(f) == [k |-> "obj", f |-> f]

Has(o, key) == o.k = "obj" /\ key \in DOMAIN o.f

\* encoding/json into a string field: absent or null leaves the zero value,
\* a string sets it, anything else is an UnmarshalTypeError.
StrFieldErr(o, key) == Has(o, key) /\ o.f[key].k \notin {"str", "null"}
StrField(o, key) == IF Has(o, key) /\ o.f[key].k = "str" THEN o.f[key].s ELSE ""

\* float64 holds integers below 2^53 (hi below 2^23) and, from there to 2^54,
\* the even ones; strconv.ParseFloat rounds an odd one to the neighbour whose
\* mantissa is even
Limb == 2^30
Float64(n) ==
    IF n.hi < 2^23 \/ n.lo % 2 = 0 THEN n
    ELSE IF (n.lo - 1) % 4 = 0 THEN JNumber(n.hi, n.lo - 1)
    ELSE IF n.lo + 1 = Limb THEN JNumber(n.hi + 1, 0)
    ELSE JNumber(n.hi, n.lo + 1)

\* what encoding/json stores in an interface{}: an object becomes a
\* map[string]interface{}, a number a float64, a string a string, null nil.
\* The stored value is written like the JSON value it came from.
RECURSIVE Decoded(_)
Decoded(v) ==
    IF v.k = "num" THEN Float64(v)
    ELSE IF v.k = "obj" THEN JObj([key \in DOMAIN v.f |-> Decoded(v.f[key])])
    ELSE v

\* encoding/json into interface{}: absent or null leaves nil.
AnyField(o, key) == IF Has(o, key) THEN Decoded(o.f[key]) ELSE JNull

\* json.Unmarshal(msg.Body, &message) with message a WorkerMessage. Keys are
\* taken as written (the bodies below spell them in lower case); unknown keys
\* are ignored.
UnmarshalErr(b) ==
    \/ b.k \in {"invalid", "str", "num"}
    \/ b.k = "obj" /\ (StrFieldErr(b, "action") \/ StrFieldErr(b, "id"))

Unmarshal(b) ==
    IF b.k = "obj"
    THEN [Action |-> StrField(b, "action"), Payload |-> AnyField(b, "payload"),
          ID |-> StrField(b, "id")]
    ELSE [Action |-> "", Payload |-> JNull, ID |-> ""]

\* handleCreateUser without the assertion on email
PayloadErrNoEmail(p) ==
    \/ p.k # "obj"
    \/ ~(Has(p, "name") /\ p.f["name"].k = "str")

\* handleCreateUser's three type assertions
PayloadErr(p) ==
    \/ p.k # "obj"
    \/ ~(Has(p, "name") /\ p.f["name"].k = "str")
    \/ ~(Has(p, "email") /\ p.f["email"].k = "str")

\* processMessage with the default case returning an error
DispatchUnknownFails(b) ==
    IF UnmarshalErr(b) THEN "unmarshal"
    ELSE IF Unmarshal(b).Action # "create_user" THEN "validation"
    ELSE IF PayloadErr(Unmarshal(b).Payload) THEN "validation"
    ELSE "create"

\* processMessage up to the store call: "unmarshal", "validation", "unknown"
\* (acknowledged as a success) or "create" (goes on to CreateUser)
Dispatch(b) ==
    IF UnmarshalErr(b) THEN "unmarshal"
    ELSE IF Unmarshal(b).Action # "create_user" THEN "unknown"
    ELSE IF PayloadErr(Unmarshal(b).Payload) THEN "validation"
    ELSE "create"

\* ------------------------------------------------------------ input bodies
UserObj(n, e) == JObj([name |-> JStr(n), email |-> JStr(e)])
Envelope(a, p, i) == JObj([action |-> JStr(a), payload |-> p, id |-> JStr(i)])

Bodies == {
    JInvalid,
    JStr("create_user"),
    JNull,
    JObj([action |-> JNum, payload |-> UserObj("Ada", "ada@example.com")]),
    Envelope("create_user", UserObj("Ada", "ada@example.com"), "msg_1"),
    Envelope("create_user", UserObj("Bob", "bob@example.com"), "msg_2"),
    Envelope("create_user", JStr("Ada"), "msg_3"),
    Envelope("create_user", JObj([name |-> JStr("Ada")]), "msg_4"),
    Envelope("create_user", JObj([name |-> JNum, email |-> JStr("ada@example.com")]), "msg_5"),
    Envelope("delete_user", UserObj("Ada", "ada@example.com"), "msg_6"),
    JObj([payload |-> UserObj("Ada", "ada@example.com")]) }

\* ------------------------------------------------------------------- Init
NoDelivery == 0
\* no envelope is being converted
NoCodec == [pc |-> "none"]
\* no repository method was called directly
NoCall == [op |-> "none"]

\* the durable queue as the consumer finds it: any messages, published by
\* this repository's producer or by anyone else
RECURSIVE QueuesOf(_)
QueuesOf(n) ==
    IF n = 0 THEN {<<>>}
    ELSE QueuesOf(n - 1) \cup
         {Append(q, [mid |-> n, body |-> b]) : q \in {x \in QueuesOf(n - 1) : Len(x) = n - 1},
                                               b \in Bodies}

\* state after NewConsumerWorker, NewProducerWorker and NewRabbitMQService
Constructed ==
    /\ cCancelled = FALSE
    /\ cPc = [t \in Tasks |-> "idle"]
    /\ cCur = [t \in Tasks |-> NoDelivery]
    /\ chanOpen = TRUE
    /\ consumers = {}
    /\ deliveries = <<>>
    /\ users = <<>>
    /\ idSeq = 0
    /\ pCancelled = FALSE
    /\ pPc = [t \in Tasks |-> "idle"]
    /\ tickReady = [t \in Tasks |-> FALSE]
    /\ now = 0
    /\ published = <<>>
    /\ crashes = 0
    /\ cShutdownRets = <<>>
    /\ pShutdownRets = <<>>
    /\ rOpened = TRUE
    /\ connOpen = TRUE
    /\ rShutdowns = <<>>
    /\ brokerUp = TRUE
    /\ codec = NoCodec
    /\ repoRet = NoCall

\* Shutdown calls a caller makes on one object: do's injector, which main
\* hands the teardown to, calls each service's Shutdown once; a caller that
\* holds the object may call it again
ShutdownLimit == IF teardown = "once" THEN 1 ELSE MaxShutdowns

\* ----------------------------------------------------------------- broker
Tags == 1..Len(deliveries)
Msg(d) == [mid |-> d.mid, body |-> d.body]

\* a delivery of a subscription made with autoAck = true: the broker counts
\* it as acknowledged the moment it is pushed
NewDeliveryAutoAck(m, t) ==
    [mid |-> m.mid, body |-> m.body, task |-> t, st |-> "sent", live |-> FALSE,
     acks |-> 0, nacks |-> 0, requeue |-> FALSE, recvCancelled |-> FALSE,
     calls |-> 0, writes |-> 0, db |-> "none", interrupted |-> FALSE, err |-> "pending"]

\* what the broker pushes to a consumer: the message plus the bookkeeping of
\* what the loop did with it
NewDelivery(m, t) ==
    [mid |-> m.mid, body |-> m.body, task |-> t,
     st |-> "sent",        \* sent / recv (held by the loop) / done / dropped
     live |-> TRUE,        \* the tag is outstanding (unacked) on the channel
     acks |-> 0, nacks |-> 0, requeue |-> FALSE,
     recvCancelled |-> FALSE,  \* ctx was done when the select took it
     calls |-> 0,          \* CreateUser calls
     writes |-> 0,         \* rows inserted
     db |-> "none",        \* what the INSERT did: ok / dup / notsent
     interrupted |-> FALSE,\* the query saw ctx cancelled
     err |-> "pending"]    \* processMessage's result: nil or the failing step

\* deliveries buffered for loop t, not yet taken by its select
Pending(t) == {g \in Tags : deliveries[g].task = t /\ deliveries[g].st = "sent"}
MinOf(S) == CHOOSE x \in S : \A y \in S : x <= y

\* the broker pushes the head of the queue to one of the channel's consumers
\* (autoAck = false, no prefetch limit)
BrokerDeliver(t) ==
    /\ chanOpen
    /\ t \in consumers
    /\ queue # <<>>
    /\ Len(deliveries) < MaxDeliveries
    /\ deliveries' = Append(deliveries, NewDelivery(Head(queue), t))
    /\ queue' = Tail(queue)
    /\ UNCHANGED <<cmd, lvars, kvars, cvars, chanOpen, consumers, svars, pvars>>

\* messages of the outstanding deliveries, which a closing channel requeues
Outstanding ==
    LET s == SelectSeq(deliveries, LAMBDA d : d.live)
    IN  [i \in 1..Len(s) |-> Msg(s[i])]

CloseDelivery(d) ==
    [d EXCEPT !.live = FALSE,
              !.st = IF d.st = "sent" THEN "dropped" ELSE d.st]

\* the Close calls of Shutdown, in order: each field is closed unless it is nil
ShutdownCloses(opened) == IF opened THEN <<"channel", "conn">> ELSE <<>>

\* a Shutdown that returns what channel.Close() returned
ShutdownReturnsCloseErr(opened, open) ==
    IF opened /\ ~open THEN "ErrClosed" ELSE "nil"

\* what Shutdown returns: the errors of both Close calls are dropped
ShutdownReturn(opened, open) == "nil"

\* RabbitMQService.Shutdown: channel.Close() then conn.Close(); the broker
\* requeues what was unacknowledged and the delivery channels are closed
RabbitShutdown ==
    /\ Len(rShutdowns) < ShutdownLimit
    /\ chanOpen' = FALSE
    /\ connOpen' = FALSE
    /\ queue' = IF chanOpen THEN Outstanding \o queue ELSE queue
    /\ deliveries' = [g \in Tags |-> CloseDelivery(deliveries[g])]
    /\ consumers' = {}
    /\ rShutdowns' = Append(rShutdowns, [closes |-> ShutdownCloses(rOpened),
                                         ret |-> ShutdownReturn(rOpened, chanOpen)])
    /\ UNCHANGED <<cmd, cvars, svars, pvars, crashes, teardown, cShutdownRets, pShutdownRets, rOpened, brokerUp, kvars>>

\* msg.Ack(false): settles this one tag; an error (closed channel) is dropped
AckDelivery(d) ==
    [d EXCEPT !.acks = @ + 1, !.live = FALSE, !.st = "done"]

\* msg.Nack(false, false): a reject that drops the message
NackNoRequeue(d) ==
    [d EXCEPT !.nacks = @ + 1, !.requeue = FALSE, !.live = FALSE, !.st = "done"]

\* msg.Nack(false, true): settles this one tag and asks for a requeue
NackDelivery(d) ==
    [d EXCEPT !.nacks = @ + 1, !.requeue = TRUE, !.live = FALSE, !.st = "done"]

\* ------------------------------------------------------------ users table
\* a users table whose email column is not UNIQUE
EmailNeverTaken(e) == FALSE

\* users_email_key: the INSERT of a row with this email would violate it
EmailTaken(e) == \E i \in 1..Len(users) : users[i].email = e

\* users_email_key for an UPDATE of row id
EmailTakenByOther(e, id) ==
    \E i \in 1..Len(users) : users[i].email = e /\ users[i].id # id

\* INSERT INTO users (name, email, ...): id comes from users_id_seq
Inserted(n, e) == Append(users, [id |-> idSeq + 1, name |-> n, email |-> e])

\* an update written as a replace: the row gets a new id from the sequence
UpdatedRenumbers(id, n, e) ==
    [i \in 1..Len(users) |->
        IF users[i].id = id THEN [id |-> idSeq + 1, name |-> n, email |-> e]
        ELSE users[i]]

\* UPDATE users SET name = $1, email = $2 ... WHERE id = $4
Updated(id, n, e) ==
    [i \in 1..Len(users) |->
        IF users[i].id = id THEN [users[i] EXCEPT !.name = n, !.email = e]
        ELSE users[i]]

\* DELETE FROM users WHERE id = $1
Deleted(id) == SelectSeq(users, LAMBDA r : r.id # id)

\* ------------------------------------------------------- userRepository
\* the repository called directly, with a context that is never cancelled
Names == {"Ada", "Bob"}
Emails == {"ada@example.com", "bob@example.com", "cy@example.com"}
Ids == 1..MaxCreates

\* CreateUser: the INSERT draws an id even when it fails on the email
CreateUser(n, e) ==
    /\ cmd = "store"
    /\ idSeq < MaxCreates
    /\ idSeq' = idSeq + 1
    /\ IF EmailTaken(e)
       THEN /\ users' = users
            /\ repoRet' = [op |-> "create", err |-> "unique_violation", id |-> 0]
       ELSE /\ users' = Inserted(n, e)
            /\ repoRet' = [op |-> "create", err |-> "nil", id |-> idSeq + 1]
    /\ UNCHANGED <<cmd, lvars, codec, cvars, bvars, pvars>>

\* UpdateUser: no row with this id makes Scan fail with no rows; an email
\* another row holds violates users_email_key; else the row is rewritten
UpdateUser(id, n, e) ==
    /\ cmd = "store"
    /\ IF \A i \in 1..Len(users) : users[i].id # id
       THEN /\ users' = users
            /\ repoRet' = [op |-> "update", err |-> "no_rows", id |-> 0]
       ELSE IF EmailTakenByOther(e, id)
       THEN /\ users' = users
            /\ repoRet' = [op |-> "update", err |-> "unique_violation", id |-> 0]
       ELSE /\ users' = Updated(id, n, e)
            /\ repoRet' = [op |-> "update", err |-> "nil", id |-> id]
    /\ UNCHANGED <<cmd, lvars, codec, cvars, bvars, pvars, idSeq>>

\* DeleteUser: zero rows affected is "user not found"
DeleteUser(id) ==
    /\ cmd = "store"
    /\ users' = Deleted(id)
    /\ repoRet' = [op |-> "delete", id |-> id,
                   err |-> IF Len(Deleted(id)) = Len(users) THEN "not_found" ELSE "nil"]
    /\ UNCHANGED <<cmd, lvars, codec, cvars, bvars, pvars, idSeq>>

\* -------------------------------------------------------- ConsumerWorker
\* the comma-ok assertions leave "" when the field is no string
NameOf(p) == IF Has(p, "name") /\ p.f["name"].k = "str" THEN p.f["name"].s ELSE ""
EmailOf(p) == IF Has(p, "email") /\ p.f["email"].k = "str" THEN p.f["email"].s ELSE ""

\* Start(): logs and spawns the loop goroutine; never refuses
CStart ==
    /\ cmd = "consumer"
    /\ \E t \in Tasks :
        /\ cPc[t] = "idle"
        /\ \A u \in Tasks : u < t => cPc[u] # "idle"
        /\ cPc' = [cPc EXCEPT ![t] = "subscribe"]
    /\ UNCHANGED <<cmd, lvars, kvars, cCancelled, cCur, bvars, svars, pvars>>

\* the goroutine's first step: w.rabbitMQ.ConsumeMessage()
Subscribe(t) ==
    /\ cPc[t] = "subscribe"
    /\ IF chanOpen
       THEN /\ cPc' = [cPc EXCEPT ![t] = "select"]
            /\ consumers' = consumers \cup {t}
       ELSE /\ cPc' = [cPc EXCEPT ![t] = "exited"]
            /\ consumers' = consumers
    /\ UNCHANGED <<cmd, lvars, kvars, cCancelled, cCur, chanOpen, queue, deliveries, svars, pvars>>

\* a Shutdown that returns w.ctx.Err()
CancelReturnsCtxErr(cancelled) == IF cancelled THEN "context canceled" ELSE "nil"

\* what Shutdown returns after w.cancel(), which returns nothing itself
CancelReturn(cancelled) == "nil"

\* Shutdown(): w.cancel(); returns nil
CShutdown ==
    /\ cmd = "consumer"
    /\ Len(cShutdownRets) < ShutdownLimit
    /\ cCancelled' = TRUE
    /\ cShutdownRets' = Append(cShutdownRets, CancelReturn(cCancelled))
    /\ UNCHANGED <<cmd, cPc, cCur, bvars, svars, pvars,
                   crashes, teardown, pShutdownRets, rOpened, connOpen, rShutdowns, brokerUp, kvars>>

\* a loop that looks at ctx only once a delivery has woken it
ObserveDoneOnDelivery(t) ==
    /\ cPc[t] = "select"
    /\ cCancelled
    /\ Pending(t) # {}
    /\ cPc' = [cPc EXCEPT ![t] = "exited"]
    /\ UNCHANGED <<cmd, lvars, kvars, cCancelled, cCur, bvars, svars, pvars>>

\* select case <-w.ctx.Done()
ObserveDone(t) ==
    /\ cPc[t] = "select"
    /\ cCancelled
    /\ cPc' = [cPc EXCEPT ![t] = "exited"]
    /\ UNCHANGED <<cmd, lvars, kvars, cCancelled, cCur, bvars, svars, pvars>>

\* select case msg, ok := <-msgChan with ok = false
ChanClosed(t) ==
    /\ cPc[t] = "select"
    /\ ~chanOpen
    /\ Pending(t) = {}
    /\ cPc' = [cPc EXCEPT ![t] = "exited"]
    /\ UNCHANGED <<cmd, lvars, kvars, cCancelled, cCur, bvars, svars, pvars>>

\* select case msg, ok := <-msgChan with ok = true, then processMessage and
\* handleCreateUser up to the CreateUser call (all local to the goroutine).
\* Go's select picks among the ready cases at random, so this is enabled
\* whether or not ctx is done.
Receive(t) ==
    /\ cPc[t] = "select"
    /\ Pending(t) # {}
    /\ LET g == MinOf(Pending(t))
           r == Dispatch(deliveries[g].body) IN
        /\ cCur' = [cCur EXCEPT ![t] = g]
        /\ cPc' = [cPc EXCEPT ![t] = IF r = "create" THEN "create" ELSE "complete"]
        /\ deliveries' = [deliveries EXCEPT ![g] =
              [@ EXCEPT !.st = "recv", !.recvCancelled = cCancelled,
                        !.err = IF r = "create" THEN "pending"
                                ELSE IF r = "unknown" THEN "nil" ELSE r]]
    /\ UNCHANGED <<cmd, lvars, kvars, cCancelled, chanOpen, consumers, queue, svars, pvars>>

\* w.userRepo.CreateUser(w.ctx, user): the query is sent on w.ctx. A done
\* context fails before anything is sent; otherwise the INSERT runs: it draws
\* from the id sequence and either violates users_email_key or adds the row.
CreateUserCall(t) ==
    /\ cPc[t] = "create"
    /\ LET g == cCur[t]
           p == Unmarshal(deliveries[g].body).Payload IN
        IF cCancelled
        THEN /\ deliveries' = [deliveries EXCEPT ![g] =
                 [@ EXCEPT !.calls = @ + 1, !.db = "notsent",
                           !.interrupted = TRUE, !.err = "store"]]
             /\ cPc' = [cPc EXCEPT ![t] = "complete"]
             /\ UNCHANGED svars
        ELSE /\ idSeq' = idSeq + 1
             /\ cPc' = [cPc EXCEPT ![t] = "scan"]
             /\ IF EmailTaken(EmailOf(p))
                THEN /\ users' = users
                     /\ deliveries' = [deliveries EXCEPT ![g] =
                          [@ EXCEPT !.calls = @ + 1, !.db = "dup"]]
                ELSE /\ users' = Inserted(NameOf(p), EmailOf(p))
                     /\ deliveries' = [deliveries EXCEPT ![g] =
                          [@ EXCEPT !.calls = @ + 1, !.writes = @ + 1, !.db = "ok"]]
    /\ UNCHANGED <<cmd, lvars, kvars, cCancelled, cCur, chanOpen, consumers, queue, pvars>>

\* does a query in flight fail on its context? Not while ctx is live; once it
\* is done the result and the cancellation race.
QueryInterrupted == IF cCancelled THEN {TRUE, FALSE} ELSE {FALSE}

\* QueryRow(...).Scan returns, then lines 137-147 of handleCreateUser
CreateUserReturn(t) ==
    /\ cPc[t] = "scan"
    /\ \E x \in QueryInterrupted :
        LET g == cCur[t]
            d == deliveries[g] IN
        deliveries' = [deliveries EXCEPT ![g] =
            [d EXCEPT !.interrupted = x,
                      !.err = IF x \/ d.db = "dup" THEN "store" ELSE "nil"]]
    /\ cPc' = [cPc EXCEPT ![t] = "complete"]
    /\ UNCHANGED <<cmd, lvars, kvars, cCancelled, cCur, chanOpen, consumers, queue, svars, pvars>>

\* lines 67-72 acknowledging whatever processMessage returned
SettleAlwaysAcks(d) == AckDelivery(d)

\* lines 67-72 without the else: an error is rejected and then acknowledged
SettleNoElse(d) == IF d.err # "nil" THEN AckDelivery(NackDelivery(d)) ELSE AckDelivery(d)

\* lines 67-72: Nack(false, true) on an error, Ack(false) otherwise
Settle(d) == IF d.err # "nil" THEN NackDelivery(d) ELSE AckDelivery(d)

\* a broker that requeues a rejected message once and drops it the next time
RequeuedOnce(d) ==
    IF /\ d.live /\ Settle(d).nacks > d.nacks /\ Settle(d).requeue
       /\ \A h \in Tags : deliveries[h].mid = d.mid => deliveries[h].nacks = 0
    THEN <<Msg(d)>> ELSE <<>>

\* the broker's side of a settlement: a rejected live delivery goes back to
\* the queue; on a closed channel the call fails and changes nothing
Requeued(d) == IF d.live /\ Settle(d).nacks > d.nacks /\ Settle(d).requeue
               THEN <<Msg(d)>> ELSE <<>>

\* msg.Ack(true), msg.Nack(true, true): every outstanding tag up to this one
SettledUpTo(g) == {h \in Tags : h = g \/ (h < g /\ deliveries[h].live)}

\* the tags one call settles: msg.Ack(false) and msg.Nack(false, true) pass
\* multiple = false, so it is the delivery's own tag alone
SettledBy(g) == {g}

\* the other tags a call settles are no longer outstanding at the broker
SettledAlong(d) == [d EXCEPT !.live = FALSE]

Complete(t) ==
    /\ cPc[t] = "complete"
    /\ LET g == cCur[t] IN
        /\ deliveries' = [h \in Tags |->
                IF h = g THEN Settle(deliveries[g])
                ELSE IF h \in SettledBy(g) THEN SettledAlong(deliveries[h])
                ELSE deliveries[h]]
        /\ queue' = Requeued(deliveries[g]) \o queue
    /\ cCur' = [cCur EXCEPT ![t] = NoDelivery]
    /\ cPc' = [cPc EXCEPT ![t] = "select"]
    /\ UNCHANGED <<cmd, lvars, kvars, cCancelled, chanOpen, consumers, svars, pvars>>

ConsumerLoop(t) ==
    \/ Subscribe(t)
    \/ ObserveDone(t)
    \/ ChanClosed(t)
    \/ Receive(t)
    \/ CreateUserCall(t)
    \/ CreateUserReturn(t)
    \/ Complete(t)

\* -------------------------------------------------------- ProducerWorker
\* fmt.Sprintf of the clock reading into the three strings of produceMessage
UserName(n) == "User_" \o ToString(n)
UserEmail(n) == "user_" \o ToString(n) \o "@example.com"

\* the nine digits of the nanoseconds within a second, as %d prints them
\* behind the seconds
NanoDigits(ns) ==
    IF ns < 10 THEN "00000000" \o ToString(ns)
    ELSE IF ns < 100 THEN "0000000" \o ToString(ns)
    ELSE "000000" \o ToString(ns)

\* an id printed from time.Now().Unix(), as the name and the email are
MessageIDFromUnix(sec, ns) == "msg_" \o ToString(sec)

\* fmt.Sprintf("msg_%d", time.Now().UnixNano()): the decimal digits of
\* sec * 10^9 + ns
MessageID(sec, ns) ==
    "msg_" \o (IF sec = 0 THEN ToString(ns) ELSE ToString(sec) \o NanoDigits(ns))

\* the WorkerMessage produceMessage builds (Payload is a UserPayload) when
\* the clock shows second sec and, within it, nanosecond ns
BuildMessage(sec, ns) ==
    [Action |-> "create_user",
     Payload |-> [Name |-> UserName(sec), Email |-> UserEmail(sec)],
     ID |-> MessageID(sec, ns)]

\* Go values a caller can put in Payload (interface{}), besides UserPayload
GoNil == [t |-> "nil"]
GoString(s) == [t |-> "string", s |-> s]
GoInt(hi, lo) == [t |-> "int64", hi |-> hi, lo |-> lo]
GoMap(m) == [t |-> "map", m |-> m]

\* json.Marshal of the value in Payload: a UserPayload by its struct tags, a
\* map by its keys, an integer by its digits
RECURSIVE MarshalValue(_)
MarshalValue(v) ==
    IF "Name" \in DOMAIN v
    THEN JObj([name |-> JStr(v.Name), email |-> JStr(v.Email)])
    ELSE CASE v.t = "nil" -> JNull
           [] v.t = "string" -> JStr(v.s)
           [] v.t = "int64" -> JNumber(v.hi, v.lo)
           [] v.t = "map" -> JObj([key \in DOMAIN v.m |-> MarshalValue(v.m[key])])

\* json.Marshal(message): struct tags name the keys
Marshal(m) ==
    JObj([action |-> JStr(m.Action),
          payload |-> MarshalValue(m.Payload),
          id |-> JStr(m.ID)])

\* ------------------------------------------------------ envelope round trip
\* envelopes a caller of json.Marshal can build: any action and id, and as
\* payload a UserPayload or a map of strings, integers and maps
Payloads == {
    [Name |-> "Ada", Email |-> "ada@example.com"],
    GoMap([name |-> GoString("Ada"), email |-> GoString("ada@example.com")]),
    GoMap(<<>>),
    GoMap([count |-> GoInt(0, 7)]),
    GoMap([count |-> GoInt(2^23, 1)]),
    GoMap([user |-> GoMap([name |-> GoString("Ada"), ref |-> GoNil])]) }

Envelopes ==
    {[Action |-> a, Payload |-> v, ID |-> i] :
        a \in {"create_user", "delete_user", ""}, v \in Payloads, i \in {"msg_1", ""}}
    \cup {BuildMessage(n, n) : n \in 0..MaxTicks}

\* json.Marshal(message) in produceMessage
MarshalMessage ==
    /\ codec.pc = "built"
    /\ codec' = [pc |-> "wire", msg |-> codec.msg, body |-> Marshal(codec.msg)]
    /\ UNCHANGED <<cmd, lvars, repoRet, cvars, bvars, svars, pvars>>

\* json.Unmarshal(msg.Body, &message) in processMessage
UnmarshalMessage ==
    /\ codec.pc = "wire"
    /\ codec' = [pc |-> "read", msg |-> codec.msg, body |-> codec.body,
                 err |-> UnmarshalErr(codec.body), out |-> Unmarshal(codec.body)]
    /\ UNCHANGED <<cmd, lvars, repoRet, cvars, bvars, svars, pvars>>

\* Start(): logs and spawns the loop goroutine; never refuses
PStart ==
    /\ cmd = "producer"
    /\ \E t \in Tasks :
        /\ pPc[t] = "idle"
        /\ \A u \in Tasks : u < t => pPc[u] # "idle"
        /\ pPc' = [pPc EXCEPT ![t] = "started"]
    /\ UNCHANGED <<cmd, lvars, kvars, pCancelled, tickReady, now, published, cvars, bvars, svars>>

\* the goroutine's first steps: time.NewTicker(5 * time.Second) and the
\* first select. The ticker's first tick is five seconds away, so of the
\* two cases only <-w.ctx.Done() can be ready: the loop returns if ctx is
\* done and waits in the select if not.
PFirstSelect(t) ==
    /\ pPc[t] = "started"
    /\ pPc' = [pPc EXCEPT ![t] = IF pCancelled THEN "exited" ELSE "select"]
    /\ UNCHANGED <<cmd, lvars, kvars, pCancelled, tickReady, now, published, cvars, bvars, svars>>

\* Shutdown(): w.cancel(); returns nil
PShutdown ==
    /\ cmd = "producer"
    /\ Len(pShutdownRets) < ShutdownLimit
    /\ pCancelled' = TRUE
    /\ pShutdownRets' = Append(pShutdownRets, CancelReturn(pCancelled))
    /\ UNCHANGED <<cmd, pPc, tickReady, now, published, cvars, bvars, svars,
                   crashes, teardown, cShutdownRets, rOpened, connOpen, rShutdowns, brokerUp, kvars>>

\* five seconds pass for loop t's ticker: a tick is put in ticker.C (buffer 1)
Tick(t) ==
    /\ pPc[t] \in {"select", "produce"}
    /\ now < MaxTicks
    /\ now' = now + 1
    /\ tickReady' = [tickReady EXCEPT ![t] = TRUE]
    /\ UNCHANGED <<cmd, lvars, kvars, pCancelled, pPc, published, cvars, bvars, svars>>

\* case <-w.ctx.Done() leaving the select but not the for loop
PObserveDoneBreak(t) ==
    /\ pPc[t] = "select"
    /\ pCancelled
    /\ UNCHANGED vars

\* select case <-w.ctx.Done(); the deferred ticker.Stop() runs
PObserveDone(t) ==
    /\ pPc[t] = "select"
    /\ pCancelled
    /\ pPc' = [pPc EXCEPT ![t] = "exited"]
    /\ tickReady' = [tickReady EXCEPT ![t] = FALSE]
    /\ UNCHANGED <<cmd, lvars, kvars, pCancelled, now, published, cvars, bvars, svars>>

\* select case <-ticker.C: picked at random among the ready cases, so it is
\* enabled whether or not ctx is done
TakeTick(t) ==
    /\ pPc[t] = "select"
    /\ tickReady[t]
    /\ pPc' = [pPc EXCEPT ![t] = "produce"]
    /\ tickReady' = [tickReady EXCEPT ![t] = FALSE]
    /\ UNCHANGED <<cmd, lvars, kvars, pCancelled, now, published, cvars, bvars, svars>>

\* RabbitMQService.PublishMessage: channel.Publish fails on a closed channel
PublishOk == chanOpen

\* the nanosecond time.Now() shows within the second `now`: every call of
\* produceMessage takes time, so a call reads a later instant than every
\* call before it, also when no tick of any ticker lies between them
NanoNow == Len(published)

\* a loop that returns when produceMessage fails
ProduceStopsOnError(t) ==
    /\ pPc[t] = "produce"
    /\ LET body == Marshal(BuildMessage(now, NanoNow)) IN
        /\ published' = Append(published,
               [task |-> t, body |-> body, ok |-> PublishOk])
        /\ queue' = IF PublishOk
                    THEN Append(queue, [mid |-> Len(published) + 1, body |-> body])
                    ELSE queue
    /\ pPc' = [pPc EXCEPT ![t] = IF PublishOk THEN "select" ELSE "exited"]
    /\ UNCHANGED <<cmd, lvars, kvars, pCancelled, tickReady, now, cvars, chanOpen, consumers, deliveries, svars>>

\* produceMessage: build, marshal, publish; the error is logged by the loop
Produce(t) ==
    /\ pPc[t] = "produce"
    /\ LET body == Marshal(BuildMessage(now, NanoNow)) IN
        /\ published' = Append(published,
               [task |-> t, body |-> body, ok |-> PublishOk])
        /\ queue' = IF PublishOk
                    THEN Append(queue, [mid |-> Len(published) + 1, body |-> body])
                    ELSE queue
    /\ pPc' = [pPc EXCEPT ![t] = "select"]
    /\ UNCHANGED <<cmd, lvars, kvars, pCancelled, tickReady, now, cvars, chanOpen, consumers, deliveries, svars>>

ProducerLoop(t) ==
    \/ PFirstSelect(t)
    \/ PObserveDone(t)
    \/ TakeTick(t)
    \/ Produce(t)

\* ---------------------------------------------------------- whole program
\* main runs one subcommand: "consumer" starts the ConsumerWorker on a queue
\* holding any messages, "producer" starts the ProducerWorker
Init ==
    /\ Constructed
    /\ teardown = "once"
    /\ \/ cmd = "consumer" /\ queue \in QueuesOf(MaxMsgs)
       \/ cmd = "producer" /\ queue = <<>>

Next ==
    \/ CStart
    \/ CShutdown
    \/ PStart
    \/ PShutdown
    \/ RabbitShutdown
    \/ \E t \in Tasks : Tick(t)
    \/ \E t \in Tasks : BrokerDeliver(t)
    \/ \E t \in Tasks : ProducerLoop(t)
    \/ \E t \in Tasks : ConsumerLoop(t)

Spec == Init /\ [][Next]_vars

\* the Go scheduler runs every goroutine that can take a step, the store
\* answers every query, and a select that is reached again and again with
\* ctx done picks that case in the end (the choice is uniformly random)
ConsumerFairness ==
    \A t \in Tasks : WF_vars(ConsumerLoop(t)) /\ SF_vars(ObserveDone(t))

ProducerFairness ==
    \A t \in Tasks : WF_vars(ProducerLoop(t)) /\ SF_vars(PObserveDone(t))

ConsumerFairSpec == Spec /\ ConsumerFairness
ProducerFairSpec == Spec /\ ProducerFairness

\* a RabbitMQService whose channel and conn were never set: no worker is
\* built on it, only Shutdown is called
NeverOpened ==
    /\ cmd = "none"
    /\ queue = <<>>
    /\ cCancelled = FALSE
    /\ cPc = [t \in Tasks |-> "idle"]
    /\ cCur = [t \in Tasks |-> NoDelivery]
    /\ chanOpen = FALSE
    /\ consumers = {}
    /\ deliveries = <<>>
    /\ users = <<>>
    /\ idSeq = 0
    /\ pCancelled = FALSE
    /\ pPc = [t \in Tasks |-> "idle"]
    /\ tickReady = [t \in Tasks |-> FALSE]
    /\ now = 0
    /\ published = <<>>
    /\ crashes = 0
    /\ cShutdownRets = <<>>
    /\ pShutdownRets = <<>>
    /\ rOpened = FALSE
    /\ connOpen = FALSE
    /\ rShutdowns = <<>>
    /\ brokerUp = TRUE
    /\ codec = NoCodec
    /\ repoRet = NoCall

\* what a killed process leaves of a delivery: one still buffered is dropped,
\* one a loop held dies with its handler; the tag is no longer outstanding
KillDelivery(d) ==
    [d EXCEPT !.live = FALSE,
              !.st = IF d.st = "sent" THEN "dropped"
                     ELSE IF d.st = "recv" THEN "killed" ELSE d.st]

\* the process is killed (no Shutdown runs) and started again: the broker
\* requeues what the dead connection had not acknowledged; main builds new
\* workers on a new channel; the queue and the users table live on
CrashRestart ==
    /\ cmd \in {"consumer", "producer"}
    /\ crashes < MaxCrashes
    /\ crashes' = crashes + 1
    /\ queue' = IF chanOpen THEN Outstanding \o queue ELSE queue
    /\ deliveries' = [g \in Tags |-> KillDelivery(deliveries[g])]
    /\ cCancelled' = FALSE
    /\ cPc' = [t \in Tasks |-> "idle"]
    /\ cCur' = [t \in Tasks |-> NoDelivery]
    /\ chanOpen' = TRUE
    /\ connOpen' = TRUE
    /\ consumers' = {}
    /\ pCancelled' = FALSE
    /\ pPc' = [t \in Tasks |-> "idle"]
    /\ tickReady' = [t \in Tasks |-> FALSE]
    /\ cShutdownRets' = <<>>
    /\ pShutdownRets' = <<>>
    /\ rShutdowns' = <<>>
    /\ UNCHANGED <<cmd, teardown, rOpened, brokerUp, svars, now, published, kvars>>

CrashSpec == Init /\ [][Next \/ CrashRestart]_vars

\* the connection to the broker is lost (the broker restarts, the network
\* fails): channel and connection are closed, the delivery channels that
\* Consume returned are closed, the broker requeues what was unacknowledged
ConnectionLost ==
    /\ cmd \in {"consumer", "producer"}
    /\ brokerUp /\ connOpen
    /\ brokerUp' = FALSE
    /\ chanOpen' = FALSE
    /\ connOpen' = FALSE
    /\ queue' = Outstanding \o queue
    /\ deliveries' = [g \in Tags |-> CloseDelivery(deliveries[g])]
    /\ consumers' = {}
    /\ UNCHANGED <<cmd, cvars, svars, pvars, kvars, crashes, teardown,
                   cShutdownRets, pShutdownRets, rOpened, rShutdowns>>

\* the broker can be reached again. Nothing in the client dials again:
\* amqp091.Dial and conn.Channel are called in NewRabbitMQService only, and
\* a closed amqp091 connection stays closed
ConnectionBack ==
    /\ ~brokerUp
    /\ brokerUp' = TRUE
    /\ UNCHANGED <<cmd, cvars, bvars, svars, pvars, kvars, crashes, teardown,
                   cShutdownRets, pShutdownRets, rOpened, connOpen, rShutdowns>>

ReconnectSpec == Init /\ [][Next \/ ConnectionLost \/ ConnectionBack]_vars

\* the same program with callers that call Shutdown again, and the client
\* that was never opened
TeardownInit ==
    /\ teardown = "repeated"
    /\ \/ /\ Constructed
          /\ \/ cmd = "consumer" /\ queue \in QueuesOf(MaxMsgs)
             \/ cmd = "producer" /\ queue = <<>>
       \/ NeverOpened

TeardownSpec == TeardownInit /\ [][Next]_vars

\* the repository on its own: any caller, any order of create, update, delete
StoreInit ==
    /\ Constructed
    /\ teardown = "once"
    /\ cmd = "store"
    /\ queue = <<>>

StoreNext ==
    \/ \E n \in Names, e \in Emails : CreateUser(n, e)
    \/ \E id \in Ids, n \in Names, e \in Emails : UpdateUser(id, n, e)
    \/ \E id \in Ids : DeleteUser(id)

StoreSpec == StoreInit /\ [][StoreNext]_vars

\* one envelope serialized by the producer's code and deserialized by the
\* consumer's
CodecInit ==
    /\ cmd = "codec"
    /\ teardown = "once"
    /\ queue = <<>>
    /\ cCancelled = FALSE
    /\ cPc = [t \in Tasks |-> "idle"]
    /\ cCur = [t \in Tasks |-> NoDelivery]
    /\ chanOpen = TRUE
    /\ consumers = {}
    /\ deliveries = <<>>
    /\ users = <<>>
    /\ idSeq = 0
    /\ pCancelled = FALSE
    /\ pPc = [t \in Tasks |-> "idle"]
    /\ tickReady = [t \in Tasks |-> FALSE]
    /\ now = 0
    /\ published = <<>>
    /\ crashes = 0
    /\ cShutdownRets = <<>>
    /\ pShutdownRets = <<>>
    /\ rOpened = TRUE
    /\ connOpen = TRUE
    /\ rShutdowns = <<>>
    /\ brokerUp = TRUE
    /\ repoRet = NoCall
    /\ codec \in {[pc |-> "built", msg |-> m] : m \in Envelopes}

CodecNext == MarshalMessage \/ UnmarshalMessage

CodecSpec == CodecInit /\ [][CodecNext]_vars

\* ------------------------------------------------------------- properties
\* a loop goroutine holds delivery g between taking it and settling it
Held(g) == \E t \in Tasks : cCur[t] = g /\ cPc[t] \in {"create", "scan", "complete"}
\* delivery g was taken by a loop's select
Received(g) == deliveries[g].st \in {"recv", "done"}
Completions(g) == deliveries[g].acks + deliveries[g].nacks

\* C1: every delivery a loop has received and is no longer holding got exactly
\* one completion (one Ack or one Nack, never both); while it is held it has
\* none; whatever the processing outcome and whenever Shutdown is called.
C1_ExactlyOneCompletion ==
    \A g \in Tags :
        /\ Completions(g) <= 1
        /\ Received(g) => (Completions(g) = IF Held(g) THEN 0 ELSE 1)
        /\ ~Received(g) => Completions(g) = 0

\* C1 witness: after Shutdown, one delivery acknowledged and one rejected
C1_Witness ==
    /\ cCancelled
    /\ \E g, h \in Tags :
        /\ ~Held(g) /\ deliveries[g].acks = 1
        /\ ~Held(h) /\ deliveries[h].nacks = 1 /\ deliveries[h].err = "store"

\* the well-formed create_user envelopes: action "create_user", payload an
\* object whose name and email are strings
WellFormedCreate(b) ==
    /\ b.k = "obj"
    /\ Has(b, "action") /\ b.f["action"] = JStr("create_user")
    /\ ~StrFieldErr(b, "id")
    /\ Has(b, "payload") /\ b.f["payload"].k = "obj"
    /\ Has(b.f["payload"], "name") /\ b.f["payload"].f["name"].k = "str"
    /\ Has(b.f["payload"], "email") /\ b.f["payload"].f["email"].k = "str"

RowsFor(b) ==
    {i \in 1..Len(users) : /\ users[i].name = b.f["payload"].f["name"].s
                           /\ users[i].email = b.f["payload"].f["email"].s
                           /\ users[i].id >= 1}

\* C2 (as claimed): every consumed well-formed create_user envelope leaves
\* exactly one row with its name and email and a store-assigned id, and its
\* delivery has one acknowledgement and no reject. Stated here for the runs in
\* which Shutdown is never called, where it already fails.
C2_CreateOnceAndAck ==
    ~cCancelled =>
    \A g \in Tags :
        (Received(g) /\ ~Held(g) /\ WellFormedCreate(deliveries[g].body)) =>
            /\ Cardinality(RowsFor(deliveries[g].body)) = 1
            /\ deliveries[g].acks = 1
            /\ deliveries[g].nacks = 0

\* envelopes that deserialize and whose action is not "create_user"
OtherAction(b) == ~UnmarshalErr(b) /\ Unmarshal(b).Action # "create_user"

\* C3: a delivery whose envelope deserializes with an action other than
\* "create_user" causes no store call and no row, is never rejected, and once
\* the loop is done with it has exactly one acknowledgement.
C3_UnknownActionAcked ==
    \A g \in Tags :
        (Received(g) /\ OtherAction(deliveries[g].body)) =>
            /\ deliveries[g].calls = 0 /\ deliveries[g].writes = 0
            /\ deliveries[g].nacks = 0 /\ ~deliveries[g].requeue
            /\ ~Held(g) => deliveries[g].acks = 1

\* C3 witness: an envelope with another action and one with no action at
\* all, both acknowledged, nothing stored
C3_Witness ==
    /\ users = <<>>
    /\ \E g, h \in Tags :
        /\ Unmarshal(deliveries[g].body).Action = "delete_user" /\ deliveries[g].acks = 1
        /\ deliveries[h].body = JNull /\ deliveries[h].acks = 1

\* C4: a delivery whose body does not deserialize causes no store call and no
\* row, is never acknowledged, and once the loop is done with it has exactly
\* one reject, with requeue = true.
C4_UndecodableRequeued ==
    \A g \in Tags :
        (Received(g) /\ UnmarshalErr(deliveries[g].body)) =>
            /\ deliveries[g].calls = 0 /\ deliveries[g].writes = 0
            /\ deliveries[g].acks = 0
            /\ ~Held(g) => (deliveries[g].nacks = 1 /\ deliveries[g].requeue)

\* C4 witness: text that is no JSON was rejected and is delivered again
C4_Witness ==
    \E g, h \in Tags :
        /\ g < h
        /\ deliveries[g].body = JInvalid /\ deliveries[g].nacks = 1 /\ deliveries[g].requeue
        /\ deliveries[h].mid = deliveries[g].mid

\* C5 (as claimed): a delivery whose INSERT hit the unique email constraint
\* is acknowledged and not rejected.
C5_DuplicateAcked ==
    \A g \in Tags :
        (Received(g) /\ ~Held(g) /\ deliveries[g].db = "dup" /\ ~deliveries[g].interrupted) =>
            /\ deliveries[g].acks = 1
            /\ deliveries[g].nacks = 0

\* create_user envelopes whose payload is no object, or whose name or email
\* is absent or no string
BadCreatePayload(b) ==
    /\ ~UnmarshalErr(b)
    /\ Unmarshal(b).Action = "create_user"
    /\ LET p == Unmarshal(b).Payload IN
        \/ p.k # "obj"
        \/ ~Has(p, "name")
        \/ Has(p, "name") /\ p.f["name"].k # "str"
        \/ ~Has(p, "email")
        \/ Has(p, "email") /\ p.f["email"].k # "str"

\* C6: a create_user delivery with a malformed payload fails validation
\* before any store call: no CreateUser call, no row, never acknowledged, and
\* once the loop is done with it exactly one reject.
C6_ValidationRejected ==
    \A g \in Tags :
        (Received(g) /\ BadCreatePayload(deliveries[g].body)) =>
            /\ deliveries[g].calls = 0 /\ deliveries[g].writes = 0
            /\ deliveries[g].err = "validation"
            /\ deliveries[g].acks = 0
            /\ ~Held(g) => deliveries[g].nacks = 1

\* C6 witness: a payload without email and a payload that is a string, both
\* rejected
C6_Witness ==
    \E g, h \in Tags :
        /\ deliveries[g].body.k = "obj" /\ deliveries[h].body.k = "obj"
        /\ Unmarshal(deliveries[g].body).Payload = JObj([name |-> JStr("Ada")])
        /\ deliveries[g].nacks = 1
        /\ Unmarshal(deliveries[h].body).Payload = JStr("Ada")
        /\ deliveries[h].nacks = 1

\* C7 (as claimed): a select reached with ctx done never takes a delivery
\* (consumer) and never takes a tick (producer).
C7_CancelWinsSelect ==
    [][ /\ \A t \in Tasks :
            (cCancelled /\ cPc[t] = "select") => cPc'[t] \in {"select", "exited"}
        /\ \A t \in Tasks :
            (pCancelled /\ pPc[t] = "select") => pPc'[t] \in {"select", "exited"} ]_vars

\* C8 (as claimed): a create_user handler that began before Shutdown ends
\* with the outcome of its INSERT: nil if the row went in, an error only for
\* a duplicate email.
C8_HandlerNotInterrupted ==
    \A g \in Tags :
        (/\ Received(g) /\ ~deliveries[g].recvCancelled
         /\ WellFormedCreate(deliveries[g].body)
         /\ deliveries[g].err # "pending") =>
            /\ ~deliveries[g].interrupted
            /\ deliveries[g].db \in {"ok", "dup"}
            /\ deliveries[g].err = IF deliveries[g].db = "ok" THEN "nil" ELSE "store"

\* C9: once Shutdown was called and a consumer loop is blocked in its select
\* with no delivery waiting, the loop exits, whether or not a delivery ever
\* arrives.
C9_BlockedConsumerExits ==
    \A t \in Tasks :
        (cCancelled /\ cPc[t] = "select" /\ Pending(t) = {}) ~> (cPc[t] = "exited")

\* C9 witness: a subscribed loop on an open channel, with nothing ever
\* delivered, has exited after Shutdown
C9_Witness ==
    \E t \in Tasks :
        /\ cPc[t] = "exited" /\ cCancelled
        /\ chanOpen /\ t \in consumers
        /\ deliveries = <<>> /\ queue = <<>>

Last(q) == q[Len(q)]

\* C10: once Shutdown was called every started producer loop exits; an
\* exited loop stays exited and publishes nothing, and while no loop is
\* live nothing is published.
C10_ProducerExits ==
    /\ \A t \in Tasks :
        (pCancelled /\ pPc[t] \in {"started", "select", "produce"}) ~> (pPc[t] = "exited")
    /\ [][ /\ \A t \in Tasks : pPc[t] = "exited" =>
                /\ pPc'[t] = "exited"
                /\ published' # published => Last(published').task # t
           /\ (\A t \in Tasks : pPc[t] \in {"idle", "exited"}) =>
                published' = published ]_vars

\* C10 witness: a loop that published has exited after Shutdown
C10_Witness ==
    \E t \in Tasks :
        /\ pPc[t] = "exited" /\ pCancelled
        /\ \E i \in 1..Len(published) : published[i].task = t /\ published[i].ok

\* C11: every Shutdown call on the consumer worker or on the producer worker
\* returns nil and leaves the context cancelled; a call on a worker that was
\* already shut down changes nothing else, so two calls end in the state
\* one call ends in.
C11_ShutdownIdempotent ==
    /\ [](/\ \A i \in 1..Len(cShutdownRets) : cShutdownRets[i] = "nil"
          /\ \A i \in 1..Len(pShutdownRets) : pShutdownRets[i] = "nil"
          /\ (cShutdownRets # <<>>) = cCancelled
          /\ (pShutdownRets # <<>>) = pCancelled)
    /\ [][ /\ (cShutdownRets # <<>> /\ cShutdownRets' # cShutdownRets) =>
                UNCHANGED <<cmd, cvars, bvars, svars, pvars>>
           /\ (pShutdownRets # <<>> /\ pShutdownRets' # pShutdownRets) =>
                UNCHANGED <<cmd, cvars, bvars, svars, pvars>> ]_vars

\* C11 witness: Shutdown was called twice on a consumer whose loop, blocked
\* between the two calls, has now exited
C11_Witness ==
    /\ Len(cShutdownRets) = 2
    /\ \E t \in Tasks : cPc[t] = "exited" /\ t \in consumers

\* C14: every Shutdown call of the broker client returns nil; on a client
\* that was opened it closes the channel and then the connection, on one that
\* never was it closes nothing; after any call both are closed, and a further
\* call changes nothing.
C14_ClientShutdown ==
    /\ [](/\ \A i \in 1..Len(rShutdowns) :
                /\ rShutdowns[i].ret = "nil"
                /\ rShutdowns[i].closes = IF rOpened THEN <<"channel", "conn">> ELSE <<>>
          /\ rShutdowns # <<>> => (~chanOpen /\ ~connOpen /\ consumers = {})
          /\ chanOpen => connOpen)
    /\ [][ (rShutdowns # <<>> /\ rShutdowns' # rShutdowns) =>
                UNCHANGED <<cmd, cvars, bvars, svars, pvars, connOpen, rOpened>> ]_vars

\* C14 witness: the client was shut down twice while a consumer loop held a
\* delivery, which the first call put back in the queue
C14_Witness ==
    /\ Len(rShutdowns) = 2
    /\ rOpened
    /\ \E g \in Tags : Held(g) /\ \E i \in 1..Len(queue) : queue[i].mid = deliveries[g].mid

\* publish attempts of loop t, and those that failed
Attempts(t) == Cardinality({i \in 1..Len(published) : published[i].task = t})
Failures(t) == Cardinality({i \in 1..Len(published) : published[i].task = t /\ ~published[i].ok})

\* C12: a producer loop leaves Running only through Shutdown; a publish,
\* failed or not, takes it back to its select; and a tick that is ready at
\* the select of a loop whose earlier publishes failed leads to one more
\* publish attempt, unless Shutdown is called first.
C12_PublishFailureContinues ==
    /\ [](\A t \in Tasks : pPc[t] = "exited" => pCancelled)
    /\ [][\A t \in Tasks : pPc[t] = "produce" => pPc'[t] \in {"produce", "select"}]_vars
    /\ \A t \in Tasks : \A n \in 1..MaxTicks :
          (/\ pPc[t] = "select" /\ tickReady[t] /\ ~pCancelled
           /\ Attempts(t) = n /\ Failures(t) >= 1)
            ~> (Attempts(t) > n \/ pCancelled)

\* C12 witness: a loop whose first two publishes failed has made a third
\* attempt and is still running
C12_Witness ==
    \E t \in Tasks :
        /\ ~pCancelled /\ pPc[t] = "select"
        /\ Attempts(t) = 3 /\ Failures(t) = 3

\* C13 (as claimed): when Start returns, its loop has an open subscription;
\* and a delivery pushed to a loop before Shutdown is taken and settled with
\* one Ack or one Nack, unless Shutdown or the end of the subscription comes
\* first.
C13_StartSubscribes ==
    /\ [][\A t \in Tasks : (cPc[t] = "idle" /\ cPc'[t] # "idle") => t \in consumers']_vars
    /\ \A g \in 1..MaxDeliveries :
          (g \in Tags /\ deliveries[g].st = "sent" /\ ~cCancelled)
            ~> (g \in Tags /\ (Completions(g) = 1 \/ cCancelled \/ ~chanOpen))

\* deliveries whose CreateUser call reached the table with email e
Inserts(e) ==
    {g \in Tags : /\ Dispatch(deliveries[g].body) = "create"
                  /\ EmailOf(Unmarshal(deliveries[g].body).Payload) = e
                  /\ deliveries[g].db \in {"ok", "dup"}}
EmailsSeen == {EmailOf(Unmarshal(deliveries[g].body).Payload) :
                  g \in {h \in Tags : Dispatch(deliveries[h].body) = "create"}}

\* C15: of the create_user deliveries with one email whose INSERT ran,
\* exactly one added a row and the table holds that one row; every other
\* one hit the unique email constraint, added nothing and made CreateUser
\* return an error; and the INSERT of an email already stored leaves the
\* rows exactly as they were.
C15_SecondCreateFails ==
    /\ [](\A e \in EmailsSeen :
            /\ Inserts(e) # {} =>
                  /\ Cardinality({g \in Inserts(e) : deliveries[g].db = "ok"}) = 1
                  /\ Cardinality({i \in 1..Len(users) : users[i].email = e}) = 1
            /\ \A g \in Inserts(e) :
                  /\ deliveries[g].writes = (IF deliveries[g].db = "ok" THEN 1 ELSE 0)
                  /\ deliveries[g].db = "dup" => deliveries[g].err \in {"pending", "store"}
                  /\ (deliveries[g].db = "dup" /\ ~Held(g)) =>
                        deliveries[g].err = "store")
    /\ [][\A t \in Tasks :
            (/\ cPc[t] = "create" /\ cPc'[t] = "scan"
             /\ EmailTaken(EmailOf(Unmarshal(deliveries[cCur[t]].body).Payload)))
            => (users' = users /\ deliveries'[cCur[t]].db = "dup")]_vars

\* C15 witness: the same envelope was consumed twice with no Shutdown; the
\* first delivery added the row, the second failed on the email and the
\* table still holds that one row
C15_Witness ==
    /\ ~cCancelled
    /\ Len(users) = 1
    /\ \E g, h \in Tags :
        /\ g < h
        /\ deliveries[g].body = deliveries[h].body
        /\ deliveries[g].mid # deliveries[h].mid
        /\ deliveries[g].db = "ok" /\ deliveries[g].acks = 1
        /\ deliveries[h].db = "dup" /\ deliveries[h].err = "store" /\ ~Held(h)
        /\ users[1].email = EmailOf(Unmarshal(deliveries[g].body).Payload)

\* ids and emails of the stored rows
IdsOf(rows) == {rows[i].id : i \in 1..Len(rows)}
NoTwoAlike(rows) ==
    \A i, j \in 1..Len(rows) :
        i # j => (rows[i].email # rows[j].email /\ rows[i].id # rows[j].id)

\* C16: after any create, update and delete calls no two rows have the same
\* email; and every step either leaves the table alone, appends one row
\* with a new id, removes rows without touching the others, or rewrites
\* rows in place under their ids: a stored row's id never changes.
C16_UniqueEmailFixedId ==
    /\ [](NoTwoAlike(users))
    /\ [][ \/ users' = users
           \/ /\ Len(users') = Len(users) + 1
              /\ SubSeq(users', 1, Len(users)) = users
              /\ users'[Len(users')].id \notin 1..idSeq
           \/ /\ Len(users') < Len(users)
              /\ \E id \in IdsOf(users) : users' = SelectSeq(users, LAMBDA r : r.id # id)
           \/ /\ Len(users') = Len(users)
              /\ \A i \in 1..Len(users) : users'[i].id = users[i].id ]_vars

\* C16 witness: the table holds two rows, the older one rewritten under its
\* id, after one row was deleted and an update was refused for its email
C16_Witness ==
    /\ Len(users) = 2
    /\ idSeq = 3
    /\ users[1].id = 1 /\ users[1].name = "Bob" /\ users[1].email = "cy@example.com"
    /\ repoRet = [op |-> "update", err |-> "unique_violation", id |-> 0]

\* the value read back stands for the value that was serialized
RECURSIVE SameValue(_, _)
SameValue(v, d) ==
    IF "Name" \in DOMAIN v
    THEN d = JObj([name |-> JStr(v.Name), email |-> JStr(v.Email)])
    ELSE CASE v.t = "nil" -> d = JNull
           [] v.t = "string" -> d = JStr(v.s)
           [] v.t = "int64" -> d = JNumber(v.hi, v.lo)
           [] v.t = "map" -> /\ d.k = "obj"
                             /\ DOMAIN d.f = DOMAIN v.m
                             /\ \A key \in DOMAIN v.m : SameValue(v.m[key], d.f[key])

\* C17 (as claimed): every envelope read back after json.Marshal and
\* json.Unmarshal has the action, the payload and the id it was built with;
\* and the consumer finds in a producer-built envelope the name and email
\* the producer put there.
C17_RoundTrip ==
    codec.pc = "read" =>
        /\ ~codec.err
        /\ codec.out.Action = codec.msg.Action
        /\ codec.out.ID = codec.msg.ID
        /\ SameValue(codec.msg.Payload, codec.out.Payload)
        /\ "Name" \in DOMAIN codec.msg.Payload =>
              /\ ~PayloadErr(codec.out.Payload)
              /\ NameOf(codec.out.Payload) = codec.msg.Payload.Name
              /\ EmailOf(codec.out.Payload) = codec.msg.Payload.Email

InQueue(q, mid) == \E i \in 1..Len(q) : q[i].mid = mid

\* C18: a create_user delivery is acknowledged only after its INSERT went
\* in and CreateUser returned nil, so an acknowledged one has its row in the
\* table; when the process is killed while a loop holds a delivery (its row
\* committed or not), the delivery stays unacknowledged and its message is
\* in the queue again; and every create_user delivery a loop is done with,
\* a redelivered one included, made its own CreateUser call.
C18_AckAfterCommit ==
    /\ [](\A g \in Tags : Dispatch(deliveries[g].body) = "create" =>
            /\ deliveries[g].acks >= 1 =>
                  /\ deliveries[g].db = "ok" /\ deliveries[g].writes = 1
                  /\ deliveries[g].err = "nil"
                  /\ EmailTaken(EmailOf(Unmarshal(deliveries[g].body).Payload))
            /\ deliveries[g].st = "done" => deliveries[g].calls = 1)
    /\ [][crashes' # crashes =>
            \A g \in Tags : Held(g) =>
                /\ deliveries'[g].acks = 0
                /\ InQueue(queue', deliveries[g].mid)]_vars

\* C18 witness: the process was killed after the row was committed and
\* before the acknowledgement; the message came again and the second
\* CreateUser call hit the unique email
C18_Witness ==
    /\ crashes = 1
    /\ Len(users) = 1
    /\ \E g, h \in Tags :
        /\ g < h
        /\ deliveries[g].mid = deliveries[h].mid
        /\ deliveries[g].st = "killed" /\ deliveries[g].db = "ok" /\ deliveries[g].acks = 0
        /\ deliveries[h].calls = 1 /\ deliveries[h].db = "dup"

\* C19: a message whose body does not deserialize is never acknowledged,
\* each of its deliveries that a loop is done with was rejected with
\* requeue = true, the first like any later one, and at every moment the
\* message is either in the queue or out on an unsettled delivery: it never
\* leaves the queue for good.
C19_PoisonNeverLeaves ==
    \A g \in Tags : UnmarshalErr(deliveries[g].body) =>
        /\ deliveries[g].acks = 0
        /\ deliveries[g].st = "done" => (deliveries[g].nacks = 1 /\ deliveries[g].requeue)
        /\ \/ InQueue(queue, deliveries[g].mid)
           \/ \E h \in Tags : deliveries[h].mid = deliveries[g].mid /\ deliveries[h].live

\* C19 witness: the same undecodable message was delivered and rejected
\* as many times as the broker delivered anything, and is in the queue again
C19_Witness ==
    /\ Len(deliveries) = MaxDeliveries
    /\ \A g \in Tags :
        /\ deliveries[g].mid = deliveries[1].mid
        /\ deliveries[g].body = JInvalid
        /\ deliveries[g].nacks = 1 /\ deliveries[g].requeue
    /\ InQueue(queue, deliveries[1].mid)
    /\ ~cCancelled /\ chanOpen

\* C20: a loop holds at most one delivery that it has received and not yet
\* settled, and when it takes one every delivery it took before has its Ack
\* or Nack; and the step that settles a delivery changes that delivery
\* alone: no other delivery, outstanding or not, is touched.
C20_OneAtATime ==
    /\ [](\A t \in Tasks :
            /\ Cardinality({g \in Tags : deliveries[g].task = t /\ deliveries[g].st = "recv"}) <= 1
            /\ \A g, h \in Tags :
                  (/\ g # h /\ deliveries[g].task = t /\ deliveries[h].task = t
                   /\ deliveries[g].st = "recv" /\ Received(h)) => Completions(h) = 1)
    /\ [][\A t \in Tasks : (cPc[t] = "complete" /\ cPc'[t] = "select") =>
            /\ deliveries'[cCur[t]].acks + deliveries'[cCur[t]].nacks
                  = Completions(cCur[t]) + 1
            /\ \A h \in Tags : h # cCur[t] => deliveries'[h] = deliveries[h]]_vars

\* C20 witness: one loop has settled its delivery while another loop's
\* delivery of the same channel, pushed earlier, is still outstanding
C20_Witness ==
    \E g, h \in Tags :
        /\ g < h
        /\ deliveries[g].task # deliveries[h].task
        /\ Held(g) /\ deliveries[g].live /\ Completions(g) = 0
        /\ deliveries[h].st = "done" /\ Completions(h) = 1

\* the envelope a publish attempt carried, as a consumer reads it
Sent(i) == Unmarshal(published[i].body)

\* C21: a loop goes to produceMessage only by taking a tick from its ticker,
\* and leaves it only through one publish attempt of a create_user envelope,
\* which it always makes; nothing is published in any other step; no two
\* attempts, failed or not, carry the same identifier, so the envelope of a
\* failed publish is not sent again and never reaches the queue.
C21_OnePublishPerTick ==
    /\ [][ /\ \A t \in Tasks :
                /\ (pPc[t] # "produce" /\ pPc'[t] = "produce") =>
                      /\ pPc[t] = "select" /\ tickReady[t] /\ ~tickReady'[t]
                      /\ published' = published
                /\ (pPc[t] = "produce" /\ pPc'[t] # "produce") =>
                      /\ pPc'[t] = "select"
                      /\ Len(published') = Len(published) + 1
                      /\ Last(published').task = t
           /\ published' # published =>
                /\ Len(published') = Len(published) + 1
                /\ SubSeq(published', 1, Len(published)) = published
                /\ \E t \in Tasks : pPc[t] = "produce" /\ pPc'[t] = "select"
                /\ tickReady' = tickReady ]_vars
    /\ [](/\ \A i \in 1..Len(published) :
                /\ ~UnmarshalErr(published[i].body)
                /\ Sent(i).Action = "create_user"
                /\ ~PayloadErr(Sent(i).Payload)
                /\ \A j \in 1..Len(published) :
                      i # j => /\ Sent(i).ID # Sent(j).ID
                               /\ published[i].body # published[j].body
                /\ ~published[i].ok =>
                      /\ \A k \in 1..Len(queue) : queue[k].body # published[i].body
                      /\ \A g \in Tags : deliveries[g].body # published[i].body)
    /\ \A t \in Tasks : \A n \in 0..MaxTicks :
          (pPc[t] = "produce" /\ Attempts(t) = n) ~> (Attempts(t) = n + 1)

\* C21 witness: one loop's publish failed, and its next tick, taken within
\* the same second, sent an envelope with another identifier
C21_Witness ==
    \E i, j \in 1..Len(published) :
        /\ i < j
        /\ published[i].task = published[j].task
        /\ ~published[i].ok
        /\ Sent(i).Payload = Sent(j).Payload
        /\ Sent(i).ID # Sent(j).ID

\* a loop of the producer that Start spawns after Shutdown publishes nothing
ProducerStoppedIsTerminal ==
    \A t \in Tasks :
        []((pCancelled /\ pPc[t] = "idle") => [](pPc[t] # "produce"))

\* C22 (as claimed): once Shutdown was called, a loop that a later Start
\* spawns never takes a delivery (consumer) and never publishes (producer).
C22_StoppedIsTerminal ==
    /\ \A t \in Tasks :
          []((cCancelled /\ cPc[t] = "idle") => [](cCur[t] = NoDelivery))
    /\ ProducerStoppedIsTerminal

\* loop goroutines that are subscribed to the queue on the open channel, and
\* loop goroutines that wait for a tick or publish on it
ConsumingLoops == {t \in Tasks : chanOpen /\ t \in consumers /\ cPc[t] # "exited"}
PublishingLoops == {t \in Tasks : chanOpen /\ pPc[t] \in {"select", "produce"}}

\* C23 (as claimed): however often Start is called, at most one loop of a
\* worker is active on the broker channel at any time.
C23_OneLoopPerChannel ==
    /\ Cardinality(ConsumingLoops) <= 1
    /\ Cardinality(PublishingLoops) <= 1

\* loop t had an open subscription: the broker pushed a delivery to it
WasSubscribed(t) == \E g \in Tags : deliveries[g].task = t

\* C24 (as claimed): when the connection was lost and the broker can be
\* reached again, a loop that was subscribed and was never shut down is
\* still running: it goes on receiving without a new Start.
C24_RestartableOnReconnect ==
    (/\ brokerUp /\ ~connOpen
     /\ rShutdowns = <<>> /\ ~cCancelled) =>
        \A t \in Tasks : WasSubscribed(t) => cPc[t] # "exited"

\* the messages the broker holds: ready in the queue, or out on a delivery
\* that is not settled
Kept(q, ds) ==
    {q[i].mid : i \in 1..Len(q)} \cup {ds[g].mid : g \in {h \in 1..Len(ds) : ds[h].live}}

\* C25: a message the broker holds stops being held only in the step in
\* which a consumer loop acknowledges its outstanding delivery after
\* processMessage returned nil (the row was inserted, or the action is
\* unknown); every other step (a reject, Shutdown of the worker or of the
\* client, the loss of the connection, the end of a loop) leaves every held
\* message in the queue or on an unsettled delivery; and no delivery whose
\* processing failed is ever acknowledged.
C25_NoMessageLost ==
    /\ [][\A m \in Kept(queue, deliveries) :
            m \notin Kept(queue', deliveries') =>
                \E t \in Tasks :
                    /\ cPc[t] = "complete" /\ cPc'[t] = "select"
                    /\ deliveries[cCur[t]].mid = m
                    /\ deliveries[cCur[t]].err = "nil"
                    /\ \/ deliveries[cCur[t]].db = "ok"
                       \/ Dispatch(deliveries[cCur[t]].body) = "unknown"
                    /\ deliveries'[cCur[t]].acks = 1
                    /\ deliveries'[cCur[t]].nacks = 0]_vars
    /\ [][\A g \in Tags :
            (deliveries'[g].nacks > deliveries[g].nacks \/
             (deliveries'[g].st = "dropped" /\ deliveries[g].st # "dropped")) =>
                deliveries[g].mid \in Kept(queue', deliveries')]_vars
    /\ [](\A g \in Tags : deliveries[g].acks >= 1 => deliveries[g].err = "nil")

\* C25 witness: after Shutdown of the worker and the loss of the connection
\* every loop has ended; one message was acknowledged and is gone, another
\* was rejected for a processing error and is in the queue
C25_Witness ==
    /\ cCancelled /\ ~connOpen
    /\ \A t \in Tasks : cPc[t] \in {"idle", "exited"}
    /\ \E t \in Tasks : cPc[t] = "exited"
    /\ \E g, h \in Tags :
        /\ deliveries[g].acks = 1 /\ deliveries[g].mid \notin Kept(queue, deliveries)
        /\ deliveries[h].nacks = 1 /\ deliveries[h].err # "nil"
        /\ InQueue(queue, deliveries[h].mid)

====
